---- MODULE Spec2Model ----
(***************************************************************************)
(* The AxelarNode reconciler (operator/pkg/controller) as a state machine. *)
(* One AxelarNode resource, its six dependent objects, the reconciler's    *)
(* pass (one action per API call it makes), and the other actors of the    *)
(* cluster: the user, the workload controller, the garbage collector and   *)
(* writers that are not the reconciler.                                    *)
(***************************************************************************)
EXTENDS Integers, Sequences, FiniteSets, TLC

\* ------------------------------------------------------------------ bounds
\* how many times the user may edit the spec of the resource
MaxSpecEdits == 1
\* how many objects actors other than the reconciler may create or delete
MaxForeignOps == 1
\* how many times the operator process may crash
MaxCrashes == 1
\* up to how many accepted deletion passes are told apart
MaxCleanups == 2

\* --------------------------------------------------------------- constants
Finalizer == "axelarnode.blockchain.axelar.network/finalizer"

\* the dependent objects, by the suffix of their name, in apply order
Kinds == <<"config", "secrets", "data", "shared", "service", "deploy">>
KindSet == {Kinds[i] : i \in 1..Len(Kinds)}

\* ------------------------------------------------------- AxelarNodeSpec
\* The defaults of the CRD; validator is the *ValidatorSpec pointer:
\* "nil", or its Enabled flag "off" / "on".
BaseSpec ==
    [nodeType |-> "observer", network |-> "testnet", moniker |-> "axelar-k8s-node",
     repository |-> "axelarnet/axelar-core", tag |-> "v0.35.5",
     storageSize |-> "500Gi", storageClass |-> "standard",
     validator |-> "nil",
     p2pPort |-> 26656, externalAddress |-> "", persistentPeers |-> <<>>, seeds |-> <<>>,
     rpcPort |-> 26657, apiEnabled |-> TRUE, apiPort |-> 1317,
     monEnabled |-> TRUE, promPort |-> 26660, promPath |-> "/metrics",
     strategy |-> "rolling"]

\* The specs the user applies: the defaults or a validator (node type and
\* sub-spec), each with the other fields as they are or changed.
Changed(s) ==
    [s EXCEPT !.network = "mainnet", !.moniker = "my-node", !.tag = "v0.35.6",
              !.storageSize = "1Ti", !.storageClass = "", !.rpcPort = 36657,
              !.promPort = 36660, !.persistentPeers = <<"a@h:1", "b@h:2">>,
              !.strategy = "recreate"]

ValidatorSpec == [BaseSpec EXCEPT !.nodeType = "validator", !.validator = "on"]

Specs == {BaseSpec, ValidatorSpec, Changed(BaseSpec), Changed(ValidatorSpec)}

\* the node types of the CRD (+kubebuilder:validation:Enum)
NodeTypes == {"validator", "sentry", "seed", "observer"}

\* the specs a resource can be created with: every node type with every value
\* of the validator sub-spec (the CRD does not tie the one to the other), the
\* other fields as they are or changed
KindSpecs ==
    LET kinds == {[BaseSpec EXCEPT !.nodeType = t, !.validator = v] :
                     t \in NodeTypes, v \in {"nil", "off", "on"}}
    IN  kinds \cup {Changed(s) : s \in kinds}

\* ------------------------------------------------------------ generators
\* joinStrings joins string slice with commas
RECURSIVE joinFrom(_, _, _)
joinFrom(strs, i, result) ==
    IF i > Len(strs) THEN result ELSE joinFrom(strs, i + 1, result \o "," \o strs[i])

joinStrings(strs) == IF Len(strs) = 0 THEN "" ELSE joinFrom(strs, 2, strs[1])

\* the values substituted into the two fixed templates, in order
generateConfigMapData(s) ==
    [appToml |-> <<s.monEnabled, s.apiEnabled, s.apiPort>>,
     configToml |-> <<s.moniker, s.rpcPort, s.p2pPort, s.externalAddress,
                      joinStrings(s.persistentPeers), joinStrings(s.seeds),
                      s.monEnabled, s.promPort>>,
     chainId |-> IF s.network = "mainnet" THEN "axelar-dojo-1"
                 ELSE "axelar-testnet-lisbon-3",
     network |-> s.network]

ValidatorEnabled(s) == s.validator = "on"

\* the keys of the generated Secret's data
secretData(s) ==
    {"keyring-password"} \cup (IF ValidatorEnabled(s) THEN {"tofnd-password"} ELSE {})

\* resource.ParseQuantity on the size strings of the model: a number and a
\* binary suffix; any other string is not in its domain
Quantities ==
    [str \in {"500Gi", "1Ti", "10Gi", "1Gi"} |->
        CASE str = "500Gi" -> [value |-> 500, suffix |-> "Gi"]
          [] str = "1Ti" -> [value |-> 1, suffix |-> "Ti"]
          [] str = "10Gi" -> [value |-> 10, suffix |-> "Gi"]
          [] str = "1Gi" -> [value |-> 1, suffix |-> "Gi"]]

\* resource.MustParse panics when ParseQuantity returns an error
MustParsePanics(size) == size \notin DOMAIN Quantities

\* How a panic in Reconcile ends the pass: the process dies ("panic"), or the
\* work queue recovers it and takes it for an error, as the controller-runtime
\* the operator is built with has it.
PanicOutcomes == {"panic", "error"}

createPVC(s, suffix, size) ==
    [accessModes |-> <<"ReadWriteOnce">>, size |-> size,
     storageClassName |-> IF s.storageClass # "" THEN s.storageClass ELSE "nil"]

servicePorts(s) ==
    <<[name |-> "rpc", port |-> s.rpcPort, targetPort |-> s.rpcPort],
      [name |-> "p2p", port |-> s.p2pPort, targetPort |-> s.p2pPort],
      [name |-> "api", port |-> s.apiPort, targetPort |-> s.apiPort],
      [name |-> "prometheus", port |-> s.promPort, targetPort |-> s.promPort]>>

scrapeAnnotations(s) ==
    [scrape |-> "true", port |-> s.promPort, path |-> s.promPath]

createService(s) ==
    [ports |-> servicePorts(s), annotations |-> scrapeAnnotations(s)]

Image(s) == s.repository \o ":" \o s.tag

createValidatorContainers(s) ==
    <<[name |-> "vald", image |-> Image(s), moniker |-> "",
       secretKeys |-> {"keyring-password"}, ports |-> <<>>,
       mounts |-> <<"data", "shared">>],
      [name |-> "tofnd", image |-> "axelarnet/tofnd:v0.10.1", moniker |-> "",
       secretKeys |-> {"tofnd-password"}, ports |-> <<50051>>,
       mounts |-> <<"shared">>]>>

createPodSpec(s) ==
    LET containers ==
            <<[name |-> "axelar-node", image |-> Image(s), moniker |-> s.moniker,
               secretKeys |-> {"keyring-password"},
               ports |-> <<s.rpcPort, s.p2pPort, s.apiPort, s.promPort>>,
               mounts |-> <<"data", "shared", "config">>]>>
    IN  IF ValidatorEnabled(s) THEN containers \o createValidatorContainers(s)
        ELSE containers

\* createDeployment with the update strategy taken from spec.upgrade.strategy
createDeploymentBySpec(s) ==
    [replicas |-> 1,
     strategy |-> IF s.strategy = "rolling" THEN "RollingUpdate" ELSE "Recreate",
     annotations |-> scrapeAnnotations(s),
     containers |-> createPodSpec(s)]

createDeployment(s) ==
    [replicas |-> 1, strategy |-> "Recreate",
     annotations |-> scrapeAnnotations(s),
     containers |-> createPodSpec(s)]

\* deploymentEqual finding any two Deployments equal
deploymentEqualAlways(a, b) == TRUE

\* deploymentEqual compares the image of the first container only
deploymentEqual(a, b) == a.containers[1].image = b.containers[1].image

\* updateStatus asking for replicas before ready replicas
PhaseOfReplicasFirst(replicas, readyReplicas) ==
    IF replicas > 0 THEN "Syncing"
    ELSE IF readyReplicas > 0 THEN "Running"
    ELSE "Pending"

\* the phase updateStatus derives from the workload's reported counts
PhaseOf(replicas, readyReplicas) ==
    IF readyReplicas > 0 THEN "Running"
    ELSE IF replicas > 0 THEN "Syncing"
    ELSE "Pending"

\* the placeholder sync and network information updateStatus stores
MockSyncInfo == [currentHeight |-> 12345, latestHeight |-> 12345, catchingUp |-> FALSE]
MockNetworkInfo(s) == [peers |-> 10, nodeId |-> "mock-node-id", network |-> s.network]

ZeroStatus ==
    [phase |-> "",
     syncInfo |-> [currentHeight |-> 0, latestHeight |-> 0, catchingUp |-> FALSE],
     networkInfo |-> [peers |-> 0, nodeId |-> "", network |-> ""],
     validatorInfo |-> "nil",
     conditions |-> <<>>]

\* ------------------------------------------------------------------ state
VARIABLES
    node,         \* the stored AxelarNode: exists, spec, finalizers, deletionTimestamp, status
    dep,          \* the stored dependent objects, by kind
    deployStatus, \* the counts the workload controller reports on the Deployment
    pc,           \* the API call the running pass makes next, "idle" between passes
    axelarNode,   \* the pass's in-memory copy of the resource
    stale,        \* the copy's resourceVersion is older than the stored one
    result,       \* what the last pass returned; "none" while a pass runs
    log,          \* the writes the current (or last) pass issued, in order
    everFinalized,  \* a pass has stored the finalizer on the resource
    interfered,     \* another actor deleted a dependent object during the pass
    startConverged, \* the pass started on a converged resource
    specEdits,
    foreignOps,
    crashes,        \* how many times the operator process crashed and restarted
    bareCrash,      \* it crashed with the finalizer stored and no dependent object yet
    cleanups        \* how many deletion passes had their write accepted (up to MaxCleanups)

vars == <<node, dep, deployStatus, pc, axelarNode, stale, result, log,
          everFinalized, interfered, startConverged, specEdits, foreignOps,
          crashes, bareCrash, cleanups>>

NoObj == [exists |-> FALSE, owner |-> FALSE, byReconciler |-> FALSE,
          body |-> [none |-> TRUE]]

Owned(body) == [exists |-> TRUE, owner |-> TRUE, byReconciler |-> TRUE, body |-> body]

ZeroCounts == [replicas |-> 0, readyReplicas |-> 0]

\* the counts a single-replica workload can report
Counts == {[replicas |-> r, readyReplicas |-> y] : r \in 0..1, y \in 0..1} \
              {[replicas |-> 0, readyReplicas |-> 1]}

\* an object of the expected name that another actor put in the namespace
ForeignBody(k) ==
    CASE k = "config" ->
           [appToml |-> <<>>, configToml |-> <<>>, chainId |-> "other", network |-> "other"]
      [] k = "secrets" -> {"other-key"}
      [] k \in {"data", "shared"} ->
           [accessModes |-> <<"ReadWriteMany">>, size |-> "1Gi", storageClassName |-> "nil"]
      [] k = "service" ->
           [ports |-> <<[name |-> "http", port |-> 80, targetPort |-> 80]>>,
            annotations |-> [scrape |-> "false", port |-> 0, path |-> ""]]
      [] k = "deploy" ->
           [replicas |-> 3, strategy |-> "RollingUpdate",
            annotations |-> [scrape |-> "false", port |-> 0, path |-> ""],
            containers |-> <<[name |-> "axelar-node", image |-> Image(BaseSpec),
                              moniker |-> "other", secretKeys |-> {},
                              ports |-> <<>>, mounts |-> <<>>]>>]

Foreign(k) == [exists |-> TRUE, owner |-> FALSE, byReconciler |-> FALSE,
               body |-> ForeignBody(k)]

\* what each generator derives from spec s, by kind
Desired(s, k) ==
    CASE k = "config" -> generateConfigMapData(s)
      [] k = "secrets" -> secretData(s)
      [] k = "data" -> createPVC(s, "data", s.storageSize)
      [] k = "shared" -> createPVC(s, "shared", "10Gi")
      [] k = "service" -> createService(s)
      [] k = "deploy" -> createDeployment(s)

\* all dependents exist and match the spec, and status reflects the workload
Converged ==
    /\ node.exists /\ ~node.deletionTimestamp
    /\ node.finalizers = <<Finalizer>>
    /\ \A k \in KindSet : dep[k].exists /\ dep[k].body = Desired(node.spec, k)
    /\ node.status.phase = PhaseOf(deployStatus.replicas, deployStatus.readyReplicas)
    /\ node.status.syncInfo = MockSyncInfo
    /\ node.status.networkInfo = MockNetworkInfo(node.spec)

\* A resource the user has just created with the defaults of the CRD: no
\* finalizer, empty status, no dependent object.  The other specs are reached
\* by UserUpdateSpec, before the first pass or later.
Init ==
    /\ node = [exists |-> TRUE, spec |-> BaseSpec, finalizers |-> <<>>,
               deletionTimestamp |-> FALSE, status |-> ZeroStatus]
    /\ dep = [k \in KindSet |-> NoObj]
    /\ deployStatus = ZeroCounts
    /\ pc = "idle"
    /\ axelarNode = node
    /\ stale = FALSE
    /\ result = "none"
    /\ log = <<>>
    /\ everFinalized = FALSE
    /\ interfered = FALSE
    /\ startConverged = FALSE
    /\ specEdits = 0
    /\ foreignOps = 0
    /\ crashes = 0
    /\ bareCrash = FALSE
    /\ cleanups = 0

\* a resource the user has just created with any of the specs of S
InitFrom(S) ==
    /\ \E s \in S :
          node = [exists |-> TRUE, spec |-> s, finalizers |-> <<>>,
                  deletionTimestamp |-> FALSE, status |-> ZeroStatus]
    /\ dep = [k \in KindSet |-> NoObj]
    /\ deployStatus = ZeroCounts
    /\ pc = "idle"
    /\ axelarNode = node
    /\ stale = FALSE
    /\ result = "none"
    /\ log = <<>>
    /\ everFinalized = FALSE
    /\ interfered = FALSE
    /\ startConverged = FALSE
    /\ specEdits = 0
    /\ foreignOps = 0
    /\ crashes = 0
    /\ bareCrash = FALSE
    /\ cleanups = 0

InitKinds == InitFrom(KindSpecs)

\* the specs whose storage size parses, is missing or is malformed
SizeSpecs == {[BaseSpec EXCEPT !.storageSize = size] : size \in {"500Gi", "", "500GB"}}

InitSizes == InitFrom(SizeSpecs)

\* ------------------------------------------------------------ the pass
Entry(op, obj, ok) == [op |-> op, obj |-> obj, ok |-> ok]

\* ContainsFinalizer looking at the first finalizer of the list only
ContainsFinalizerFirstOnly(obj, f) == Len(obj.finalizers) > 0 /\ obj.finalizers[1] = f

ContainsFinalizer(obj, f) == \E i \in 1..Len(obj.finalizers) : obj.finalizers[i] = f

\* AddFinalizer leaving the list as it is
AddFinalizerNoOp(obj, f) == obj

AddFinalizer(obj, f) ==
    IF ContainsFinalizer(obj, f) THEN obj
    ELSE [obj EXCEPT !.finalizers = Append(@, f)]

RemoveFinalizer(obj, f) ==
    [obj EXCEPT !.finalizers = SelectSeq(@, LAMBDA x : x # f)]

\* Reconcile without the finalizer branch
FirstStepNoFinalizer(obj) ==
    IF obj.deletionTimestamp THEN "handleDeletion"
    ELSE IF obj.status.phase = "" THEN "initPhase"
    ELSE "reconcileConfigMap"

\* Reconcile without the deletion branch
FirstStepNoDeletion(obj) ==
    IF ~ContainsFinalizer(obj, Finalizer) THEN "addFinalizer"
    ELSE IF obj.status.phase = "" THEN "initPhase"
    ELSE "reconcileConfigMap"

\* Reconcile looking for the finalizer before the deletion timestamp
FirstStepFinalizerFirst(obj) ==
    IF ~ContainsFinalizer(obj, Finalizer) THEN "addFinalizer"
    ELSE IF obj.deletionTimestamp THEN "handleDeletion"
    ELSE IF obj.status.phase = "" THEN "initPhase"
    ELSE "reconcileConfigMap"

\* Reconcile applying the dependents only in the pass that initialises the phase
FirstStepApplyOnce(obj) ==
    IF obj.deletionTimestamp THEN "handleDeletion"
    ELSE IF ~ContainsFinalizer(obj, Finalizer) THEN "addFinalizer"
    ELSE IF obj.status.phase = "" THEN "initPhase"
    ELSE "updateStatus"

\* Reconcile, from the fetched object to its first API call
FirstStep(obj) ==
    IF obj.deletionTimestamp THEN "handleDeletion"
    ELSE IF ~ContainsFinalizer(obj, Finalizer) THEN "addFinalizer"
    ELSE IF obj.status.phase = "" THEN "initPhase"
    ELSE "reconcileConfigMap"

\* Reconcile without the call of reconcileSecret
NextStepSkipSecret(step) ==
    CASE step = "initPhase" -> "reconcileConfigMap"
      [] step = "reconcileConfigMap" -> "reconcilePVC_data"
      [] step = "reconcileSecret" -> "reconcilePVC_data"
      [] step = "reconcilePVC_data" -> "reconcilePVC_shared"
      [] step = "reconcilePVC_shared" -> "reconcileService"
      [] step = "reconcileService" -> "reconcileDeployment"
      [] step = "reconcileDeployment" -> "updateStatus"

\* Reconcile: the order of the apply steps
NextStep(step) ==
    CASE step = "initPhase" -> "reconcileConfigMap"
      [] step = "reconcileConfigMap" -> "reconcileSecret"
      [] step = "reconcileSecret" -> "reconcilePVC_data"
      [] step = "reconcilePVC_data" -> "reconcilePVC_shared"
      [] step = "reconcilePVC_shared" -> "reconcileService"
      [] step = "reconcileService" -> "reconcileDeployment"
      [] step = "reconcileDeployment" -> "updateStatus"

\* Reconcile going on to the next step whatever the step returned
StepOutcomeContinue(step, err) == [pc |-> NextStep(step), result |-> "none"]

\* Reconcile: `if err != nil { return ctrl.Result{}, err }` after each step
StepOutcome(step, err) ==
    IF err THEN [pc |-> "idle", result |-> "error"]
    ELSE [pc |-> NextStep(step), result |-> "none"]

\* a write to the stored resource is accepted when the API call goes through,
\* the resource is still there and the resourceVersion sent is the stored one
\* a write of the resource stored whatever resource version it carries
AcceptedNoConflict(api) == api = "ok" /\ node.exists

Accepted(api) == api = "ok" /\ node.exists /\ ~stale

Outcomes == {"ok", "getErr", "writeErr"}

\* Reconcile going on with the empty object when r.Get reports NotFound
FetchIgnoreNotFound(api) ==
    /\ pc = "idle"
    /\ log' = <<>>
    /\ interfered' = FALSE
    /\ IF api # "ok"
       THEN /\ pc' = "idle" /\ result' = "error"
            /\ startConverged' = FALSE
            /\ UNCHANGED <<axelarNode, stale>>
       ELSE /\ axelarNode' = node
            /\ stale' = FALSE
            /\ pc' = FirstStep(node)
            /\ result' = "none"
            /\ startConverged' = Converged
    /\ UNCHANGED <<node, dep, deployStatus, everFinalized, specEdits, foreignOps,
                   crashes, bareCrash, cleanups>>

\* r.Get of the resource, and the branch Reconcile takes on it
Fetch(api) ==
    /\ pc = "idle"
    /\ log' = <<>>
    /\ interfered' = FALSE
    /\ IF api # "ok"
       THEN /\ pc' = "idle" /\ result' = "error"
            /\ startConverged' = FALSE
            /\ UNCHANGED <<axelarNode, stale>>
       ELSE IF ~node.exists
       THEN /\ pc' = "idle" /\ result' = "done"
            /\ startConverged' = FALSE
            /\ UNCHANGED <<axelarNode, stale>>
       ELSE /\ axelarNode' = node
            /\ stale' = FALSE
            /\ pc' = FirstStep(node)
            /\ result' = "none"
            /\ startConverged' = Converged
    /\ UNCHANGED <<node, dep, deployStatus, everFinalized, specEdits, foreignOps,
                   crashes, bareCrash, cleanups>>

\* the platform removes a resource under deletion once no finalizer is left
Absent == [exists |-> FALSE, spec |-> BaseSpec, finalizers |-> <<>>,
           deletionTimestamp |-> FALSE, status |-> ZeroStatus]

Stored(obj) ==
    IF obj.deletionTimestamp /\ obj.finalizers = <<>> THEN Absent ELSE obj

\* the count of accepted deletion passes after one more, accepted or not
Cleaned(accepted) ==
    IF accepted /\ cleanups < MaxCleanups THEN cleanups + 1 ELSE cleanups

\* handleDeletion dropping the error of r.Update
HandleDeletionSwallow(api) ==
    /\ pc = "handleDeletion"
    /\ LET obj == RemoveFinalizer(axelarNode, Finalizer) IN
       /\ axelarNode' = obj
       /\ node' = IF Accepted(api)
                  THEN Stored([node EXCEPT !.finalizers = obj.finalizers,
                                           !.spec = obj.spec])
                  ELSE node
    /\ log' = Append(log, Entry("update", "node", Accepted(api)))
    /\ pc' = "idle"
    /\ result' = "done"
    /\ cleanups' = Cleaned(Accepted(api))
    /\ UNCHANGED <<dep, deployStatus, stale, everFinalized, interfered,
                   startConverged, specEdits, foreignOps, crashes, bareCrash>>

\* handleDeletion refusing a resource that no longer carries the finalizer
HandleDeletionStrict(api) ==
    /\ pc = "handleDeletion"
    /\ LET obj == RemoveFinalizer(axelarNode, Finalizer)
           refused == ~ContainsFinalizer(axelarNode, Finalizer)
           ok == ~refused /\ Accepted(api) IN
       /\ axelarNode' = obj
       /\ node' = IF ok
                  THEN Stored([node EXCEPT !.finalizers = obj.finalizers,
                                           !.spec = obj.spec])
                  ELSE node
       /\ log' = IF refused THEN log ELSE Append(log, Entry("update", "node", ok))
       /\ result' = IF ok THEN "done" ELSE "error"
       /\ cleanups' = Cleaned(ok)
    /\ pc' = "idle"
    /\ UNCHANGED <<dep, deployStatus, stale, everFinalized, interfered,
                   startConverged, specEdits, foreignOps, crashes, bareCrash>>

\* handleDeletion deleting the dependent objects before it removes the finalizer
HandleDeletionCascade(api) ==
    /\ pc = "handleDeletion"
    /\ LET obj == RemoveFinalizer(axelarNode, Finalizer) IN
       /\ axelarNode' = obj
       /\ node' = IF Accepted(api)
                  THEN Stored([node EXCEPT !.finalizers = obj.finalizers,
                                           !.spec = obj.spec])
                  ELSE node
    /\ dep' = [k \in KindSet |-> NoObj]
    /\ deployStatus' = ZeroCounts
    /\ log' = Append(log, Entry("update", "node", Accepted(api)))
    /\ pc' = "idle"
    /\ result' = IF Accepted(api) THEN "done" ELSE "error"
    /\ cleanups' = Cleaned(Accepted(api))
    /\ UNCHANGED <<stale, everFinalized, interfered,
                   startConverged, specEdits, foreignOps, crashes, bareCrash>>

\* handleDeletion writing the resource back with the finalizer still on it
HandleDeletionKeepFinalizer(api) ==
    /\ pc = "handleDeletion"
    /\ log' = Append(log, Entry("update", "node", Accepted(api)))
    /\ pc' = "idle"
    /\ result' = IF Accepted(api) THEN "done" ELSE "error"
    /\ cleanups' = Cleaned(Accepted(api))
    /\ UNCHANGED <<node, axelarNode, dep, deployStatus, stale, everFinalized,
                   interfered, startConverged, specEdits, foreignOps, crashes,
                   bareCrash>>

\* handleDeletion: RemoveFinalizer, r.Update
HandleDeletion(api) ==
    /\ pc = "handleDeletion"
    /\ LET obj == RemoveFinalizer(axelarNode, Finalizer) IN
       /\ axelarNode' = obj
       /\ node' = IF Accepted(api)
                  THEN Stored([node EXCEPT !.finalizers = obj.finalizers,
                                           !.spec = obj.spec])
                  ELSE node
    /\ log' = Append(log, Entry("update", "node", Accepted(api)))
    /\ pc' = "idle"
    /\ result' = IF Accepted(api) THEN "done" ELSE "error"
    /\ cleanups' = Cleaned(Accepted(api))
    /\ UNCHANGED <<dep, deployStatus, stale, everFinalized, interfered,
                   startConverged, specEdits, foreignOps, crashes, bareCrash>>

\* Reconcile: AddFinalizer, return ctrl.Result{}, r.Update
AttachFinalizer(api) ==
    /\ pc = "addFinalizer"
    /\ LET obj == AddFinalizer(axelarNode, Finalizer) IN
       /\ axelarNode' = obj
       /\ node' = IF Accepted(api)
                  THEN [node EXCEPT !.finalizers = obj.finalizers, !.spec = obj.spec]
                  ELSE node
    /\ everFinalized' = (everFinalized \/ Accepted(api))
    /\ log' = Append(log, Entry("update", "node", Accepted(api)))
    /\ pc' = "idle"
    /\ result' = IF Accepted(api) THEN "done" ELSE "error"
    /\ UNCHANGED <<dep, deployStatus, stale, interfered, startConverged,
                   specEdits, foreignOps, crashes, bareCrash, cleanups>>

\* Reconcile: Status.Phase = "Initializing", r.Status().Update
InitPhase(api) ==
    /\ pc = "initPhase"
    /\ LET obj == [axelarNode EXCEPT !.status.phase = "Initializing"]
           o == StepOutcome("initPhase", ~Accepted(api)) IN
       /\ axelarNode' = obj
       /\ node' = IF Accepted(api) THEN [node EXCEPT !.status = obj.status] ELSE node
       /\ pc' = o.pc /\ result' = o.result
    /\ log' = Append(log, Entry("updateStatus", "node", Accepted(api)))
    /\ UNCHANGED <<dep, deployStatus, stale, everFinalized, interfered,
                   startConverged, specEdits, foreignOps, crashes, bareCrash, cleanups>>

\* One apply step: SetControllerReference, r.Get of the object, then r.Create
\* when it is not found, or r.Update of `updated` when the step updates.
\* refErr: SetControllerReference failed and the step returns the error.
ApplyStep(step, k, refErr, api, desired, updates, updated) ==
    LET found == dep[k]
        write == IF ~found.exists THEN "create"
                 ELSE IF updates THEN "update" ELSE "none"
        issued == ~refErr /\ api # "getErr" /\ write # "none"
        err == refErr \/ api = "getErr" \/ (issued /\ api = "writeErr")
        o == StepOutcome(step, err)
    IN  /\ dep' = IF issued /\ ~err
                  THEN [dep EXCEPT ![k] = IF write = "create" THEN desired ELSE updated]
                  ELSE dep
        /\ log' = IF issued THEN Append(log, Entry(write, k, ~err)) ELSE log
        /\ pc' = o.pc
        /\ result' = o.result

\* reconcileConfigMap creating the ConfigMap and never updating it
ReconcileConfigMapCreateOnly(refOk, api) ==
    /\ pc = "reconcileConfigMap"
    /\ ApplyStep("reconcileConfigMap", "config", ~refOk, api,
                 Owned(generateConfigMapData(axelarNode.spec)), FALSE, dep["config"])
    /\ UNCHANGED <<node, deployStatus, axelarNode, stale, everFinalized, interfered,
                   startConverged, specEdits, foreignOps, crashes, bareCrash, cleanups>>

\* reconcileConfigMap: found.Data = configMap.Data; r.Update(found)
ReconcileConfigMap(refOk, api) ==
    /\ pc = "reconcileConfigMap"
    /\ LET data == generateConfigMapData(axelarNode.spec) IN
       ApplyStep("reconcileConfigMap", "config", ~refOk, api, Owned(data),
                 TRUE, [dep["config"] EXCEPT !.body = data])
    /\ UNCHANGED <<node, deployStatus, axelarNode, stale, everFinalized, interfered,
                   startConverged, specEdits, foreignOps, crashes, bareCrash, cleanups>>

\* reconcileSecret replacing the data of the Secret it finds
ReconcileSecretReplace(refOk, api) ==
    /\ pc = "reconcileSecret"
    /\ LET data == secretData(axelarNode.spec) IN
       ApplyStep("reconcileSecret", "secrets", ~refOk, api, Owned(data),
                 TRUE, [dep["secrets"] EXCEPT !.body = data])
    /\ UNCHANGED <<node, deployStatus, axelarNode, stale, everFinalized, interfered,
                   startConverged, specEdits, foreignOps, crashes, bareCrash, cleanups>>

\* reconcileSecret: r.Create when not found, nothing otherwise
ReconcileSecret(refOk, api) ==
    /\ pc = "reconcileSecret"
    /\ ApplyStep("reconcileSecret", "secrets", ~refOk, api,
                 Owned(secretData(axelarNode.spec)), FALSE, dep["secrets"])
    /\ UNCHANGED <<node, deployStatus, axelarNode, stale, everFinalized, interfered,
                   startConverged, specEdits, foreignOps, crashes, bareCrash, cleanups>>

PVCStep(suffix) == IF suffix = "data" THEN "reconcilePVC_data" ELSE "reconcilePVC_shared"

PVCSize(s, suffix) == IF suffix = "data" THEN s.storageSize ELSE "10Gi"

\* createOrUpdatePVC replacing the spec of the claim it finds
ReconcilePVCReplace(suffix, refOk, api) ==
    /\ pc = PVCStep(suffix)
    /\ IF MustParsePanics(PVCSize(axelarNode.spec, suffix))
       THEN /\ pc' = "idle" /\ result' \in PanicOutcomes
            /\ UNCHANGED <<dep, log>>
       ELSE LET pvc == [Owned(createPVC(axelarNode.spec, suffix,
                                       PVCSize(axelarNode.spec, suffix)))
                          EXCEPT !.owner = refOk] IN
            ApplyStep(PVCStep(suffix), suffix, FALSE, api, pvc, TRUE,
                      [dep[suffix] EXCEPT !.body = pvc.body])
    /\ UNCHANGED <<node, deployStatus, axelarNode, stale, everFinalized, interfered,
                   startConverged, specEdits, foreignOps, crashes, bareCrash, cleanups>>

\* reconcilePVC: createPVC (which panics in resource.MustParse on a size that
\* does not parse, and drops the error of SetControllerReference) and
\* createOrUpdatePVC, for the data claim and then the shared claim
ReconcilePVC(suffix, refOk, api) ==
    /\ pc = PVCStep(suffix)
    /\ IF MustParsePanics(PVCSize(axelarNode.spec, suffix))
       THEN /\ pc' = "idle" /\ result' \in PanicOutcomes
            /\ UNCHANGED <<dep, log>>
       ELSE LET pvc == [Owned(createPVC(axelarNode.spec, suffix,
                                       PVCSize(axelarNode.spec, suffix)))
                          EXCEPT !.owner = refOk] IN
            ApplyStep(PVCStep(suffix), suffix, FALSE, api, pvc, FALSE, dep[suffix])
    /\ UNCHANGED <<node, deployStatus, axelarNode, stale, everFinalized, interfered,
                   startConverged, specEdits, foreignOps, crashes, bareCrash, cleanups>>

\* reconcileService: found.Spec.Ports, found.Annotations replaced; r.Update(found)
ReconcileService(refOk, api) ==
    /\ pc = "reconcileService"
    /\ LET service == createService(axelarNode.spec) IN
       ApplyStep("reconcileService", "service", ~refOk, api, Owned(service),
                 TRUE, [dep["service"] EXCEPT !.body.ports = service.ports,
                                              !.body.annotations = service.annotations])
    /\ UNCHANGED <<node, deployStatus, axelarNode, stale, everFinalized, interfered,
                   startConverged, specEdits, foreignOps, crashes, bareCrash, cleanups>>

\* reconcileDeployment: found.Spec = deployment.Spec and r.Update(found) unless
\* deploymentEqual(found, deployment)
ReconcileDeployment(refOk, api) ==
    /\ pc = "reconcileDeployment"
    /\ LET deployment == createDeployment(axelarNode.spec)
           found == dep["deploy"]
           updates == found.exists /\ ~deploymentEqual(found.body, deployment)
       IN  ApplyStep("reconcileDeployment", "deploy", ~refOk, api, Owned(deployment),
                     updates, [found EXCEPT !.body = deployment])
    /\ UNCHANGED <<node, deployStatus, axelarNode, stale, everFinalized, interfered,
                   startConverged, specEdits, foreignOps, crashes, bareCrash, cleanups>>

\* updateStatus storing empty sync and network information when it cannot
\* read the Deployment
UpdateStatusResetOnFailure(api) ==
    /\ pc = "updateStatus"
    /\ LET read == api # "getErr" /\ dep["deploy"].exists
           obj == [axelarNode EXCEPT
                     !.status.phase = PhaseOf(deployStatus.replicas,
                                              deployStatus.readyReplicas),
                     !.status.syncInfo = MockSyncInfo,
                     !.status.networkInfo = MockNetworkInfo(axelarNode.spec)]
           ok == read /\ Accepted(api)
       IN  /\ axelarNode' = IF read THEN obj ELSE axelarNode
           /\ node' = IF ok THEN [node EXCEPT !.status = obj.status]
                      ELSE IF ~read /\ node.exists
                      THEN [node EXCEPT !.status.syncInfo = ZeroStatus.syncInfo,
                                        !.status.networkInfo = ZeroStatus.networkInfo]
                      ELSE node
           /\ log' = IF read THEN Append(log, Entry("updateStatus", "node", ok)) ELSE log
           /\ result' = IF ok THEN "requeueAfter" ELSE "error"
    /\ pc' = "idle"
    /\ UNCHANGED <<dep, deployStatus, stale, everFinalized, interfered,
                   startConverged, specEdits, foreignOps, crashes, bareCrash, cleanups>>

\* Reconcile returning ctrl.Result{} after updateStatus, without RequeueAfter
UpdateStatusNoRequeue(api) ==
    /\ pc = "updateStatus"
    /\ LET read == api # "getErr" /\ dep["deploy"].exists
           obj == [axelarNode EXCEPT
                     !.status.phase = PhaseOf(deployStatus.replicas,
                                              deployStatus.readyReplicas),
                     !.status.syncInfo = MockSyncInfo,
                     !.status.networkInfo = MockNetworkInfo(axelarNode.spec)]
           ok == read /\ Accepted(api)
       IN  /\ axelarNode' = IF read THEN obj ELSE axelarNode
           /\ node' = IF ok THEN [node EXCEPT !.status = obj.status] ELSE node
           /\ log' = IF read THEN Append(log, Entry("updateStatus", "node", ok)) ELSE log
           /\ result' = IF ok THEN "done" ELSE "error"
    /\ pc' = "idle"
    /\ UNCHANGED <<dep, deployStatus, stale, everFinalized, interfered,
                   startConverged, specEdits, foreignOps, crashes, bareCrash, cleanups>>

\* updateStatus: r.Get of the Deployment, the phase from its counts, the
\* placeholder sync and network information, r.Status().Update; then
\* Reconcile returns RequeueAfter: 5 minutes
UpdateStatus(api) ==
    /\ pc = "updateStatus"
    /\ LET read == api # "getErr" /\ dep["deploy"].exists
           obj == [axelarNode EXCEPT
                     !.status.phase = PhaseOf(deployStatus.replicas,
                                              deployStatus.readyReplicas),
                     !.status.syncInfo = MockSyncInfo,
                     !.status.networkInfo = MockNetworkInfo(axelarNode.spec)]
           ok == read /\ Accepted(api)
       IN  /\ axelarNode' = IF read THEN obj ELSE axelarNode
           /\ node' = IF ok THEN [node EXCEPT !.status = obj.status] ELSE node
           /\ log' = IF read THEN Append(log, Entry("updateStatus", "node", ok)) ELSE log
           /\ result' = IF ok THEN "requeueAfter" ELSE "error"
    /\ pc' = "idle"
    /\ UNCHANGED <<dep, deployStatus, stale, everFinalized, interfered,
                   startConverged, specEdits, foreignOps, crashes, bareCrash, cleanups>>

\* ------------------------------------------------------- the other actors
\* The other actors run at any time.  A pass reads the stored resource only in
\* Fetch and touches it again only in its writes, and it reads a dependent
\* object only in that object's step (the Deployment also in updateStatus), so
\* a step of another actor at some point of a pass leads to the same states as
\* the same step taken right before the next call of the pass that can observe
\* it: the actions below are enabled at those points only.
NodeCalls == {"idle", "handleDeletion", "addFinalizer", "initPhase", "updateStatus"}

StepOf(k) ==
    CASE k = "config" -> "reconcileConfigMap"
      [] k = "secrets" -> "reconcileSecret"
      [] k = "data" -> "reconcilePVC_data"
      [] k = "shared" -> "reconcilePVC_shared"
      [] k = "service" -> "reconcileService"
      [] k = "deploy" -> "reconcileDeployment"

\* Between passes nothing of the last pass is left in memory: its result, its
\* writes and its copy of the resource are what the state right after the pass
\* shows, until another actor moves.
Forget(stored) ==
    IF pc = "idle"
    THEN /\ result' = "none" /\ log' = <<>> /\ axelarNode' = stored
         /\ startConverged' = FALSE
    ELSE /\ startConverged' = FALSE
         /\ UNCHANGED <<result, log, axelarNode>>

\* the user applies another spec
UserUpdateSpec(s) ==
    /\ pc \in NodeCalls
    /\ node.exists /\ s # node.spec
    /\ specEdits < MaxSpecEdits
    /\ node' = [node EXCEPT !.spec = s]
    /\ stale' = (pc # "idle")
    /\ specEdits' = specEdits + 1
    /\ Forget([node EXCEPT !.spec = s])
    /\ UNCHANGED <<dep, deployStatus, pc, everFinalized, interfered, foreignOps,
                   crashes, bareCrash, cleanups>>

\* the user deletes the resource: gone at once without a finalizer, marked
\* with a deletion timestamp with one
UserDelete ==
    /\ pc \in NodeCalls
    /\ node.exists /\ ~node.deletionTimestamp
    /\ node' = Stored([node EXCEPT !.deletionTimestamp = TRUE])
    /\ stale' = (pc # "idle")
    /\ Forget(Stored([node EXCEPT !.deletionTimestamp = TRUE]))
    /\ UNCHANGED <<dep, deployStatus, pc, everFinalized, interfered, specEdits,
                   foreignOps, crashes, bareCrash, cleanups>>

\* the platform's workload controller reports other counts
WorkloadController(c) ==
    /\ pc = "updateStatus"
    /\ dep["deploy"].exists /\ c # deployStatus
    /\ deployStatus' = c
    /\ Forget(node)
    /\ UNCHANGED <<node, dep, pc, stale, everFinalized, interfered, specEdits,
                   foreignOps, crashes, bareCrash, cleanups>>

\* the platform's garbage collector deletes the objects whose owner is gone
GarbageCollect ==
    /\ ~node.exists
    /\ \E k \in KindSet : dep[k].exists /\ dep[k].owner
    /\ dep' = [k \in KindSet |-> IF dep[k].owner THEN NoObj ELSE dep[k]]
    /\ deployStatus' = IF dep["deploy"].owner THEN ZeroCounts ELSE deployStatus
    /\ Forget(node)
    /\ UNCHANGED <<node, pc, stale, everFinalized, interfered, specEdits, foreignOps,
                   crashes, bareCrash, cleanups>>

Remove(k) ==
    /\ dep' = [dep EXCEPT ![k] = NoObj]
    /\ deployStatus' = IF k = "deploy" THEN ZeroCounts ELSE deployStatus

\* another actor deletes a dependent object
OtherActorDelete(k) ==
    /\ pc \in {"idle", StepOf(k), "reconcileDeployment", "updateStatus"}
    /\ pc = "updateStatus" => k = "deploy"
    /\ dep[k].exists /\ foreignOps < MaxForeignOps
    /\ Remove(k)
    /\ interfered' = (interfered \/ pc # "idle")
    /\ foreignOps' = foreignOps + 1
    /\ Forget(node)
    /\ UNCHANGED <<node, pc, stale, everFinalized, specEdits, crashes, bareCrash, cleanups>>

\* another actor creates an object under the name of a dependent object
OtherActorCreate(k) ==
    /\ pc = "idle"
    /\ ~dep[k].exists /\ foreignOps < MaxForeignOps
    /\ dep' = [dep EXCEPT ![k] = Foreign(k)]
    /\ foreignOps' = foreignOps + 1
    /\ Forget(node)
    /\ UNCHANGED <<node, deployStatus, pc, stale, everFinalized, interfered,
                   specEdits, crashes, bareCrash, cleanups>>

\* the finalizer of another controller
OtherFinalizer == "other.example.com/finalizer"

\* another controller puts its finalizer on the resource
OtherControllerAddFinalizer ==
    /\ pc \in NodeCalls
    /\ node.exists /\ ~node.deletionTimestamp
    /\ ~ContainsFinalizer(node, OtherFinalizer)
    /\ node' = AddFinalizer(node, OtherFinalizer)
    /\ stale' = (pc # "idle")
    /\ Forget(AddFinalizer(node, OtherFinalizer))
    /\ UNCHANGED <<dep, deployStatus, pc, everFinalized, interfered, specEdits,
                   foreignOps, crashes, bareCrash, cleanups>>

\* and removes it, at any time
OtherControllerRemoveFinalizer ==
    /\ pc \in NodeCalls
    /\ node.exists /\ ContainsFinalizer(node, OtherFinalizer)
    /\ node' = Stored(RemoveFinalizer(node, OtherFinalizer))
    /\ stale' = (pc # "idle")
    /\ Forget(Stored(RemoveFinalizer(node, OtherFinalizer)))
    /\ UNCHANGED <<dep, deployStatus, pc, everFinalized, interfered, specEdits,
                   foreignOps, crashes, bareCrash, cleanups>>

\* The operator process crashes, at any call of a pass or between passes, and
\* restarts: what the pass held in memory is lost, what is stored stays.
Crash ==
    /\ crashes < MaxCrashes
    /\ pc' = "idle" /\ result' = "none" /\ log' = <<>>
    /\ axelarNode' = node /\ stale' = FALSE
    /\ interfered' = FALSE /\ startConverged' = FALSE
    /\ crashes' = crashes + 1
    /\ bareCrash' = (bareCrash \/ (/\ node.exists
                                   /\ ContainsFinalizer(node, Finalizer)
                                   /\ \A k \in KindSet : ~dep[k].exists))
    /\ UNCHANGED <<node, dep, deployStatus, everFinalized, specEdits, foreignOps,
                   cleanups>>

\* the calls of a pass
Pass ==
    \/ \E api \in {"ok", "getErr"} : Fetch(api)
    \/ \E api \in {"ok", "writeErr"} : HandleDeletion(api)
    \/ \E api \in {"ok", "writeErr"} : AttachFinalizer(api)
    \/ \E api \in {"ok", "writeErr"} : InitPhase(api)
    \/ \E refOk \in BOOLEAN, api \in Outcomes : ReconcileConfigMap(refOk, api)
    \/ \E refOk \in BOOLEAN, api \in Outcomes : ReconcileSecret(refOk, api)
    \/ \E suffix \in {"data", "shared"}, refOk \in BOOLEAN, api \in Outcomes :
          ReconcilePVC(suffix, refOk, api)
    \/ \E refOk \in BOOLEAN, api \in Outcomes : ReconcileService(refOk, api)
    \/ \E refOk \in BOOLEAN, api \in Outcomes : ReconcileDeployment(refOk, api)
    \/ \E api \in Outcomes : UpdateStatus(api)

\* the platform
Platform ==
    \/ UserDelete
    \/ \E c \in Counts : WorkloadController(c)
    \/ GarbageCollect

\* the reconciler, the platform and a user who edits the spec
Next ==
    \/ Pass
    \/ Platform
    \/ \E s \in Specs : UserUpdateSpec(s)

Spec == Init /\ [][Next]_vars

\* the reconciler, the platform and other writers of the dependent objects
NextOthers ==
    \/ Pass
    \/ Platform
    \/ \E k \in KindSet : OtherActorDelete(k)
    \/ \E k \in KindSet : OtherActorCreate(k)

SpecOthers == Init /\ [][NextOthers]_vars

\* the reconciler, the user who deletes the resource, the garbage collector,
\* another controller with a finalizer of its own on the resource, and other
\* actors deleting dependent objects
NextDeletion ==
    \/ Pass
    \/ UserDelete
    \/ GarbageCollect
    \/ OtherControllerAddFinalizer
    \/ OtherControllerRemoveFinalizer
    \/ \E k \in KindSet : OtherActorDelete(k)

SpecDeletion == Init /\ [][NextDeletion]_vars

\* the reconciler and the platform, on a resource created with any node type
\* and any validator sub-spec
SpecKinds == InitKinds /\ [][Pass \/ Platform]_vars

\* the reconciler and the platform, on a resource created with a storage size
\* that parses or does not
SpecSizes == InitSizes /\ [][Pass \/ Platform]_vars

\* the reconciler in a process that crashes and restarts, and the platform
NextCrash ==
    \/ Pass
    \/ Platform
    \/ Crash

\* The work queue runs a pass again after a restart (the informer lists every
\* resource), after an error (rate-limited requeue), after RequeueAfter and
\* after each change of the resource or of an owned object; no call of the
\* convergence steps fails for ever.
FairConvergence ==
    /\ WF_vars(Fetch("ok"))
    /\ SF_vars(InitPhase("ok"))
    /\ SF_vars(ReconcileConfigMap(TRUE, "ok"))
    /\ SF_vars(ReconcileSecret(TRUE, "ok"))
    /\ \A suffix \in {"data", "shared"} : SF_vars(ReconcilePVC(suffix, TRUE, "ok"))
    /\ SF_vars(ReconcileService(TRUE, "ok"))
    /\ SF_vars(ReconcileDeployment(TRUE, "ok"))

SpecCrash == Init /\ [][NextCrash]_vars /\ FairConvergence

\* A pass goes on from one call to the next; the work queue runs a pass again
\* after an error and after the change that requests the deletion; neither
\* the read of the resource nor the write of handleDeletion fails for ever.
FairCleanup ==
    /\ WF_vars(Pass)
    /\ WF_vars(Fetch("ok"))
    /\ SF_vars(HandleDeletion("ok"))

\* the reconciler, the user who deletes the resource, the garbage collector
\* and another controller with a finalizer of its own on the resource
NextCleanup ==
    \/ Pass
    \/ UserDelete
    \/ GarbageCollect
    \/ OtherControllerAddFinalizer
    \/ OtherControllerRemoveFinalizer

SpecCleanup == Init /\ [][NextCleanup]_vars /\ FairCleanup

\* the calls of a pass when every call of the API succeeds
PassOk ==
    \/ Fetch("ok")
    \/ AttachFinalizer("ok")
    \/ InitPhase("ok")
    \/ ReconcileConfigMap(TRUE, "ok")
    \/ ReconcileSecret(TRUE, "ok")
    \/ \E suffix \in {"data", "shared"} : ReconcilePVC(suffix, TRUE, "ok")
    \/ ReconcileService(TRUE, "ok")
    \/ ReconcileDeployment(TRUE, "ok")
    \/ UpdateStatus("ok")

\* the reconciler with an API that never fails, and the workload controller
NextFresh ==
    \/ PassOk
    \/ \E c \in Counts : WorkloadController(c)

\* A pass goes on from one call to the next, and the work queue runs a pass
\* again after the write of the finalizer (a change of the resource) and
\* after RequeueAfter.
FairFresh == WF_vars(PassOk)

\* a resource just created with any well-formed spec, never deleted
SpecFresh == InitKinds /\ [][NextFresh]_vars /\ FairFresh

\* ------------------------------------------------------------- the claims
Last(s) == s[Len(s)]

Rank(k) == CHOOSE i \in 1..Len(Kinds) : Kinds[i] = k

\* the state right after a pass that returned res
Returned(res) == pc = "idle" /\ result = res

\* the writes to dependent objects in the log of the pass
DependentWrites == {i \in 1..Len(log) : log[i].obj \in KindSet}

\* C1: a dependent object created by the reconciler exists only if a pass has
\* stored the finalizer before, and the pass that attaches the finalizer issues
\* one write, the update of the resource: no dependent object, no status.
C1_FinalizerBeforeDependents ==
    /\ \A k \in KindSet : dep[k].exists /\ dep[k].byReconciler => everFinalized
    /\ \A i \in 1..Len(log) :
          log[i].obj = "node" /\ log[i].op = "update" /\ ~axelarNode.deletionTimestamp
             => Len(log) = 1 /\ pc = "idle"
    /\ pc = "addFinalizer" => log = <<>>

\* all six dependents created by the reconciler, after the attach pass
C1_Witness ==
    /\ everFinalized
    /\ \A k \in KindSet : dep[k].exists /\ dep[k].byReconciler

\* C2: a pass that saw a deletion timestamp issues nothing but the update of
\* the resource that removes the finalizer: no write to a dependent object, no
\* status write.
C2_DeletionPassCleanupOnly ==
    axelarNode.deletionTimestamp /\ (pc # "idle" \/ result # "none")
       => /\ pc \in {"handleDeletion", "idle"}
          /\ \A i \in 1..Len(log) : log[i].obj = "node" /\ log[i].op = "update"
          /\ Len(log) <= 1

\* a deletion pass done on a resource whose dependents no longer match its spec
C2_Witness ==
    /\ Returned("done") /\ axelarNode.deletionTimestamp /\ Len(log) = 1
    /\ dep["config"].exists
    /\ dep["config"].body # generateConfigMapData(axelarNode.spec)

\* C3: the dependent writes of a pass come in the order config, secrets, data,
\* shared, service, deploy; a step runs only after the writes of all earlier
\* steps succeeded; a failed write is the last write of its pass (no later
\* dependent write, no status refresh) and the pass returns an error.
C3_OrderedShortCircuit ==
    /\ \A i, j \in DependentWrites : i < j => Rank(log[i].obj) < Rank(log[j].obj)
    /\ \A i \in 1..Len(log) : ~log[i].ok => i = Len(log) /\ Returned("error")
    /\ \A k \in KindSet : pc = StepOf(k) =>
          \A i \in DependentWrites : Rank(log[i].obj) < Rank(k) /\ log[i].ok
    /\ pc = "updateStatus" => \A i \in 1..Len(log) : log[i].ok

\* the write of the service was rejected: no workload, no status refresh
C3_Witness ==
    /\ Returned("error") /\ Len(log) = 6
    /\ Last(log) = Entry("create", "service", FALSE)
    /\ ~dep["deploy"].exists /\ node.status.phase = "Initializing"

\* C4: when the reconciler has just created the workload, the ConfigMap, the
\* Secret and both claims exist, unless another actor deleted one of them
\* during the pass.
C4_DependenciesBeforeWorkload ==
    /\ pc = "updateStatus" /\ log # <<>>
    /\ Last(log) = Entry("create", "deploy", TRUE)
    /\ ~interfered
    => \A k \in {"config", "secrets", "data", "shared"} : dep[k].exists

\* the workload just created, in a namespace another actor wrote to
C4_Witness ==
    /\ pc = "updateStatus" /\ log # <<>>
    /\ Last(log) = Entry("create", "deploy", TRUE)
    /\ ~interfered /\ foreignOps > 0

C8_ConvergedPassWritesNothing ==
    Returned("requeueAfter") /\ startConverged => log = <<>>

\* C9: right after a successful convergence pass the ConfigMap holds the data
\* generated from the spec the pass read, and the Service its ports and scrape
\* annotations.
C9_ConfigAndServiceReplaced ==
    Returned("requeueAfter") =>
       /\ dep["config"].exists
       /\ dep["config"].body = generateConfigMapData(axelarNode.spec)
       /\ dep["service"].exists
       /\ dep["service"].body.ports = servicePorts(axelarNode.spec)
       /\ dep["service"].body.annotations = scrapeAnnotations(axelarNode.spec)

\* a pass that updated the ConfigMap and the Service made from another spec
C9_Witness ==
    /\ Returned("requeueAfter")
    /\ axelarNode.spec = Changed(BaseSpec)
    /\ \E i \in 1..Len(log) : log[i] = Entry("update", "config", TRUE)
    /\ \E i \in 1..Len(log) : log[i] = Entry("update", "service", TRUE)
    /\ dep["config"].body.chainId = "axelar-dojo-1"

\* C10: right after a successful status refresh the phase follows from the
\* counts the workload reports: ready replicas give Running, else replicas give
\* Syncing, else Pending.
C10_PhaseFromCounts ==
    Returned("requeueAfter") =>
       LET replicas == deployStatus.replicas
           ready == deployStatus.readyReplicas
       IN  /\ ready > 0 => node.status.phase = "Running"
           /\ ready = 0 /\ replicas > 0 => node.status.phase = "Syncing"
           /\ ready = 0 /\ replicas = 0 => node.status.phase = "Pending"

\* one replica, none ready, stored as Syncing
C10_Witness ==
    /\ Returned("requeueAfter")
    /\ deployStatus = [replicas |-> 1, readyReplicas |-> 0]
    /\ node.status.phase = "Syncing"

\* the write of the status refresh, accepted
StatusRefreshed == Entry("updateStatus", "node", TRUE)

\* C11: the status refresh is issued only by a pass that fetched the resource
\* without deletion timestamp and with the finalizer, after the workload step
\* left the workload in place and every earlier write of the pass succeeded;
\* when its write is accepted the pass returns requeue-after (not done, not
\* error); nothing else returns requeue-after, and the status refresh is then
\* the last write of the pass, after the write of the workload.
C11_ConvergedPassRequeuesAfter ==
    /\ [](pc = "updateStatus" =>
            /\ ~axelarNode.deletionTimestamp /\ ContainsFinalizer(axelarNode, Finalizer)
            /\ dep["deploy"].exists
            /\ \A i \in 1..Len(log) : log[i].ok)
    /\ [](Returned("requeueAfter") =>
            /\ log # <<>> /\ Last(log) = StatusRefreshed
            /\ \A i \in DependentWrites : i < Len(log))
    /\ [][/\ pc = "updateStatus" /\ Len(log') > Len(log) /\ Last(log').ok
              => pc' = "idle" /\ result' = "requeueAfter"
          /\ result' = "requeueAfter" /\ result # "requeueAfter"
              => pc = "updateStatus" /\ Last(log') = StatusRefreshed]_vars

\* a pass that created the workload and then stored the status returned
\* requeue-after
C11_Witness ==
    /\ Returned("requeueAfter")
    /\ Len(log) >= 2
    /\ log[Len(log) - 1] = Entry("create", "deploy", TRUE)
    /\ Last(log) = StatusRefreshed

\* C12: the pass that attaches the finalizer returns requeue-immediately when
\* its write is accepted.
C12_AttachRequeuesImmediately ==
    /\ pc = "idle" /\ result # "none"
    /\ ~axelarNode.deletionTimestamp
    /\ log = <<Entry("update", "node", TRUE)>>
    => result = "requeue"

\* how many times the controller's finalizer is in the stored list
FinalizerCount == Cardinality({i \in 1..Len(node.finalizers) : node.finalizers[i] = Finalizer})

\* C13: after a crash that found the finalizer stored and no dependent object
\* created, the later passes create all six dependent objects (unless the user
\* deletes the resource first), and the stored finalizer list never holds the
\* controller's finalizer twice.
C13_CrashAfterAttachRecovers ==
    /\ [](FinalizerCount <= 1)
    /\ bareCrash ~> \/ \A k \in KindSet : dep[k].exists /\ dep[k].byReconciler
                    \/ ~node.exists \/ node.deletionTimestamp

\* after such a crash, all six dependents in place and the finalizer once
C13_Witness ==
    /\ bareCrash
    /\ node.exists /\ ~node.deletionTimestamp /\ node.finalizers = <<Finalizer>>
    /\ \A k \in KindSet : dep[k].exists /\ dep[k].byReconciler

\* C14: the stored resource never holds the controller's finalizer twice, and
\* once deletion is requested on a resource that holds it, it keeps holding it
\* once until a deletion pass's write that removes it is accepted.
C14_OneFinalizerWhilePendingDeletion ==
    /\ [](FinalizerCount <= 1)
    /\ [][/\ node.exists /\ FinalizerCount = 1
          /\ node.deletionTimestamp \/ node'.deletionTimestamp
          => \/ node'.exists /\ FinalizerCount' = 1
             \/ /\ pc = "handleDeletion" /\ Returned("done")'
                /\ Last(log') = Entry("update", "node", TRUE)]_vars

\* pending deletion with both finalizers on it, a rejected removal behind it
C14_Witness ==
    /\ node.exists /\ node.deletionTimestamp
    /\ FinalizerCount = 1 /\ ContainsFinalizer(node, OtherFinalizer)
    /\ Returned("error") /\ log = <<Entry("update", "node", FALSE)>>

\* C15: a deletion pass whose write is rejected leaves the stored resource as
\* it was, finalizer included, and returns an error; the controller's
\* finalizer leaves the stored resource only in the step of a deletion pass
\* whose write is accepted.
C15_FailedCleanupKeepsFinalizer ==
    /\ [][pc = "handleDeletion" /\ pc' = "idle" /\ ~Last(log').ok
             => /\ node' = node /\ result' = "error"
                /\ ContainsFinalizer(axelarNode, Finalizer)
                      => node'.exists /\ FinalizerCount' = 1]_vars
    /\ [][FinalizerCount = 1 /\ FinalizerCount' = 0
             => /\ pc = "handleDeletion" /\ Returned("done")'
                /\ Last(log') = Entry("update", "node", TRUE)]_vars

\* the platform rejected the write of a deletion pass: finalizer still stored
C15_Witness ==
    /\ Returned("error") /\ log = <<Entry("update", "node", FALSE)>>
    /\ node.exists /\ node.deletionTimestamp /\ ~stale
    /\ node.finalizers = <<Finalizer>>

\* C16: whatever is left of the dependent objects and of the finalizer, the
\* cleanup of a deletion pass issues its one write to the resource and returns
\* an error only when that write was rejected: not for a dependent object that
\* is gone, not for a finalizer that is already off the resource.
C16_RepeatedCleanupNoError ==
    [][pc = "handleDeletion" /\ pc' = "idle"
          => /\ Len(log') = 1
             /\ \/ result' = "done" /\ log' = <<Entry("update", "node", TRUE)>>
                \/ result' = "error" /\ log' = <<Entry("update", "node", FALSE)>>]_vars

\* a second accepted deletion pass, on a resource that another finalizer keeps,
\* whose Service another actor deleted
C16_Witness ==
    /\ Returned("done") /\ axelarNode.deletionTimestamp
    /\ cleanups = 2
    /\ node.exists /\ FinalizerCount = 0
    /\ ~dep["service"].exists /\ dep["config"].exists

\* C17: a pass that ends at the fetch issues no write and changes nothing
\* stored; it returns done only when the resource is not there, and an error
\* otherwise; when the resource is not there no pass gets beyond the fetch.
C17_FetchFailureWritesNothing ==
    /\ [][pc = "idle" /\ pc' = "idle" /\ result' # "none"
             => /\ log' = <<>> /\ node' = node /\ dep' = dep
                /\ result' \in {"done", "error"}
                /\ result' = "done" => ~node.exists]_vars
    /\ [][pc = "idle" /\ ~node.exists
             => pc' = "idle" /\ log' = <<>> /\ node' = node]_vars

\* a pass found the resource gone, its dependents not yet collected
C17_Witness ==
    /\ Returned("done") /\ log = <<>>
    /\ ~node.exists
    /\ \A k \in KindSet : dep[k].exists

\* C18: right after a successful convergence pass each of the six dependent
\* objects exists under its name and carries an owner reference to the
\* resource.
C18_OneOwnedObjectPerKind ==
    Returned("requeueAfter") => \A k \in KindSet : dep[k].exists /\ dep[k].owner

\* C19: the stored status.validatorInfo is non-null only when the node type is
\* validator and a status refresh has been stored, and it is non-null right
\* after a pass stored a status refresh for a resource whose node type is
\* validator.
C19_ValidatorInfoIffValidator ==
    node.exists =>
       /\ node.status.validatorInfo # "nil"
             => /\ node.spec.nodeType = "validator"
                /\ node.status.syncInfo = MockSyncInfo
       /\ Returned("requeueAfter") /\ node.spec.nodeType = "validator"
             => node.status.validatorInfo # "nil"

\* C20: the workload the reconciler has just created has three containers,
\* axelar-node, vald and tofnd, when the node type is validator and
\* validator.enabled is true, and one container when the node type is
\* observer, whatever the other fields of the spec.
C20_ContainersByKind ==
    /\ pc = "updateStatus" /\ log # <<>>
    /\ Last(log) = Entry("create", "deploy", TRUE)
    => LET s == axelarNode.spec
           containers == dep["deploy"].body.containers
       IN  /\ s.nodeType = "validator" /\ s.validator = "on"
                 => /\ Len(containers) = 3
                    /\ containers[1].name = "axelar-node"
                    /\ containers[2].name = "vald"
                    /\ containers[3].name = "tofnd"
           /\ s.nodeType = "observer" => Len(containers) = 1

\* C21: no pass ends in a panic, whatever the spec: every pass ends with a
\* result or an error.
C21_MalformedSpecNeverPanics ==
    pc = "idle" => result \in {"none", "done", "requeueAfter", "error"}

\* the pass is at the generator of the data claim with a size that does not parse
GeneratorFails ==
    pc = "reconcilePVC_data" /\ MustParsePanics(axelarNode.spec.storageSize)

\* C22: the pass whose generator cannot make the data claim from the spec
\* stores phase Failed and a status condition, and ends without asking for a
\* retry.
C22_MalformedSpecMarksFailed ==
    [][GeneratorFails /\ pc' = "idle"
          => /\ node'.status.phase = "Failed"
             /\ node'.status.conditions # <<>>
             /\ result' = "done"]_vars

\* the stored phase when the pass fetched the resource: empty when the pass
\* began by initialising it, else the phase of the pass's copy
PhaseAtFetch ==
    IF log # <<>> /\ log[1].obj = "node" /\ log[1].op = "updateStatus"
    THEN "" ELSE axelarNode.status.phase

\* C23: after a pass that ended on a rejected create or update of a dependent
\* object, the stored phase is the phase stored when the pass began, and the
\* pass returned an error.
C23_ApplyFailureKeepsPhase ==
    /\ pc = "idle" /\ result # "none" /\ node.exists
    /\ log # <<>> /\ Last(log).obj \in KindSet /\ ~Last(log).ok
    => result = "error" /\ node.status.phase = PhaseAtFetch

\* C24: a pass whose apply steps all succeeded ends with requeue-after also
\* when the status refresh fails.
C24_StatusFailureStillRequeues ==
    [][pc = "updateStatus" /\ pc' = "idle" => result' = "requeueAfter"]_vars

\* C25: a status refresh that fails stores nothing, and once a refresh has
\* stored sync and network information no step resets the stored height or
\* peer count to zero.
C25_FailedRefreshKeepsLastKnown ==
    /\ [][pc = "updateStatus" /\ pc' = "idle" /\ result' = "error"
             => node'.status = node.status]_vars
    /\ [][node.exists /\ node'.exists /\ node.status.syncInfo.currentHeight > 0
             => /\ node'.status.syncInfo.currentHeight > 0
                /\ node'.status.syncInfo.latestHeight > 0
                /\ node'.status.networkInfo.peers > 0]_vars

\* after a stored refresh, the refresh of a later pass was rejected: the stored
\* height is the one of the earlier refresh
C25_Witness ==
    /\ Returned("error") /\ Len(log) > 1
    /\ Last(log) = Entry("updateStatus", "node", FALSE)
    /\ node.exists
    /\ node.status.syncInfo = MockSyncInfo /\ node.status.phase = "Running"

\* C26: a deletion request leaves a running pass where it is; a pass that
\* starts on a resource pending deletion goes to cleanup and nowhere else; and
\* whenever a pass is at a convergence step the resource is stored with the
\* finalizer on it, so no dependent object is written for a resource whose
\* finalizer has been removed.
C26_DeletionDuringPass ==
    /\ [][~node.deletionTimestamp /\ node'.deletionTimestamp => pc' = pc]_vars
    /\ [][pc = "idle" /\ pc' # "idle" /\ node.deletionTimestamp
             => pc' = "handleDeletion"]_vars
    /\ [](pc \notin {"idle", "handleDeletion", "addFinalizer"}
             => node.exists /\ FinalizerCount = 1)

\* deletion was requested during a convergence pass, which went on to its
\* last call and had it rejected
C26_Witness ==
    /\ Returned("error")
    /\ node.exists /\ node.deletionTimestamp /\ ~axelarNode.deletionTimestamp
    /\ log # <<>> /\ Last(log) = Entry("updateStatus", "node", FALSE)
    /\ \E i \in 1..Len(log) : log[i] = Entry("create", "deploy", TRUE)

\* C27: a write of the resource (finalizer attach, finalizer removal, status
\* update) made from a copy that another writer has overtaken stores nothing,
\* so the newer spec stays, and ends the pass with an error; the next pass
\* starts from a fresh read.
C27_StaleWriteRejected ==
    /\ [][stale /\ pc \in (NodeCalls \ {"idle"}) /\ pc' # pc
             => node' = node /\ pc' = "idle" /\ result' = "error"]_vars
    /\ [][pc = "idle" /\ pc' # "idle" => axelarNode' = node /\ ~stale']_vars

\* the finalizer attach of a pass lost against a spec edit made after its read
C27_Witness ==
    /\ Returned("error") /\ stale
    /\ node.exists /\ node.spec # axelarNode.spec
    /\ log = <<Entry("update", "node", FALSE)>>
    /\ ~ContainsFinalizer(node, Finalizer)

\* the pass replaced the Deployment because the image of the spec changed
ImageRolledOut ==
    \E i \in 1..Len(log) : log[i] = Entry("update", "deploy", TRUE)

\* C28: a pass on a Running resource that replaced the Deployment for a new
\* image tag and sees the workload not yet ready stores phase Upgrading.
C28_ImageChangeEntersUpgrading ==
    [][/\ pc = "updateStatus" /\ axelarNode.status.phase = "Running"
       /\ ImageRolledOut
       /\ deployStatus.readyReplicas < deployStatus.replicas
       /\ pc' = "idle" /\ result' = "requeueAfter"
       => node'.status.phase = "Upgrading"]_vars

\* the image of the first container of the stored Deployment
PrimaryImage == dep["deploy"].body.containers[1].image

\* C30: after a pass that returned the requeue-after result the first
\* container of the stored Deployment runs repository:tag of the spec the pass
\* read, and a pass that finds a Deployment with another image stores the
\* generated Deployment in its place, whole.
C30_ImageFollowsSpec ==
    /\ [](Returned("requeueAfter")
             => dep["deploy"].exists /\ PrimaryImage = Image(axelarNode.spec))
    /\ [][/\ pc = "reconcileDeployment" /\ dep["deploy"].exists
           /\ PrimaryImage # Image(axelarNode.spec)
           /\ pc' = "updateStatus"
           => dep'["deploy"].body = createDeployment(axelarNode.spec)]_vars

\* a pass replaced the Deployment after an edit of the image tag
C30_Witness ==
    /\ Returned("requeueAfter") /\ ImageRolledOut
    /\ axelarNode.spec.tag # BaseSpec.tag
    /\ dep["deploy"].body = createDeployment(axelarNode.spec)

\* C31: after a pass that returned the requeue-after result the containers of
\* the stored Deployment (their names, images, ports, environment and mounts)
\* are those createPodSpec derives from the spec the pass read.
C31_WorkloadFollowsSpec ==
    Returned("requeueAfter")
    => /\ dep["deploy"].exists
       /\ dep["deploy"].body.containers = createPodSpec(axelarNode.spec)

\* the Secret keys the containers of the stored Deployment read
ReferencedKeys ==
    UNION {dep["deploy"].body.containers[i].secretKeys :
             i \in 1..Len(dep["deploy"].body.containers)}

\* C32: after a pass that returned the requeue-after result every Secret key
\* a container of the stored Deployment reads is a key of the stored Secret.
C32_ReferencedKeysPresent ==
    Returned("requeueAfter")
    => /\ dep["deploy"].exists /\ dep["secrets"].exists
       /\ ReferencedKeys \subseteq dep["secrets"].body

\* the step of the pass issued op on a dependent object of one of kinds
Issued(op, kinds) ==
    /\ Len(log') = Len(log) + 1
    /\ Last(log').op = op /\ Last(log').obj \in kinds

\* C33: an update of the ConfigMap, the Service or the Deployment is issued
\* only on a stored object that carries the owner reference.
C33_UpdatesOnlyOwned ==
    [][Issued("update", {"config", "service", "deploy"})
         => dep[Last(log').obj].owner]_vars

\* C34: a dependent object the reconciler has created carries the owner
\* reference from its creation on.
C34_CreatedWithOwner ==
    [][Issued("create", KindSet) /\ Last(log').ok
         => dep'[Last(log').obj].owner]_vars

\* C35: a dependent object that is stored goes away only in a step of the
\* garbage collector, once the resource is gone, or in a step of another
\* actor; and no call a pass logs is a delete.
C35_NoDeleteByReconciler ==
    /\ [][(\E k \in KindSet : dep[k].exists /\ ~dep'[k].exists)
             => \/ ~node.exists /\ pc' = pc /\ node' = node
                \/ foreignOps' = foreignOps + 1]_vars
    /\ [](\A i \in 1..Len(log) : log[i].op \in {"create", "update", "updateStatus"})

\* the deletion pass removed the finalizer, the resource is gone and the six
\* dependent objects are still stored
C35_Witness ==
    /\ Returned("done") /\ ~node.exists
    /\ log = <<Entry("update", "node", TRUE)>>
    /\ \A k \in KindSet : dep[k].exists

\* deletion is requested on a stored resource that holds the finalizer
DeletionPending ==
    node.exists /\ node.deletionTimestamp /\ FinalizerCount = 1

\* C36: once deletion is requested on a resource that holds the controller's
\* finalizer, the finalizer is eventually off the stored resource, and a
\* resource no other finalizer keeps is eventually gone.
C36_DeletionCompletes ==
    /\ DeletionPending ~> FinalizerCount = 0
    /\ (DeletionPending /\ ~ContainsFinalizer(node, OtherFinalizer)) ~> ~node.exists

\* the deletion pass removed the finalizer of a resource that had been
\* finalized, and the resource is gone
C36_Witness ==
    /\ Returned("done") /\ ~node.exists /\ cleanups = 1
    /\ log = <<Entry("update", "node", TRUE)>>
    /\ axelarNode.deletionTimestamp /\ everFinalized

\* the finalizer stored, the six dependent objects stored, a phase derived
\* from the workload's counts
Settled ==
    /\ node.exists /\ ContainsFinalizer(node, Finalizer)
    /\ \A k \in KindSet : dep[k].exists
    /\ node.status.phase \in {"Pending", "Syncing", "Running"}

\* C37: with an API that never fails and no deletion, a resource just created
\* eventually has the finalizer, its six dependent objects and a phase of
\* Pending, Syncing or Running, for good; it gets there in two passes: no
\* pass returns an error, a pass ends only after the finalizer write or after
\* the status refresh, the pass that writes the finalizer stores it, and every
\* pass that starts with the finalizer stored runs the convergence steps and
\* ends settled with the requeue-after result.
C37_FreshResourceSettles ==
    /\ <>[]Settled
    /\ [](result # "error")
    /\ [][pc # "idle" /\ pc' = "idle" => pc \in {"addFinalizer", "updateStatus"}]_vars
    /\ [][pc = "addFinalizer" /\ pc' = "idle"
             => result' = "done" /\ ContainsFinalizer(node', Finalizer)]_vars
    /\ [][pc = "idle" /\ pc' # "idle" /\ ContainsFinalizer(node, Finalizer)
             => pc' \in {"initPhase", "reconcileConfigMap"}]_vars
    /\ [][pc = "updateStatus" /\ pc' = "idle"
             => result' = "requeueAfter" /\ Settled']_vars

\* settled right after the second pass, the first one that converges: it
\* initialised the phase, created the six objects and refreshed the status
C37_Witness ==
    /\ Returned("requeueAfter") /\ Settled
    /\ Len(log) = 8
    /\ log[1] = Entry("updateStatus", "node", TRUE)
    /\ \A i \in 2..7 : log[i].op = "create" /\ log[i].ok

====
